---- MODULE Spec2Model ----
(***************************************************************************)
(* Model of the horoscope video pipeline: HoroscopeVeoPipeline.run with    *)
(* both VeoClient definitions (the HTTP client and the stub that is bound  *)
(* at module end), the prompt template and transformer chain, and the two  *)
(* text generators (OpenAI-backed and the built-in mock).                  *)
(*                                                                         *)
(* Strings are sequences of tokens; a path is a sequence of path segments. *)
(***************************************************************************)
EXTENDS Integers, Sequences, FiniteSets, TLC

\* ------------------------------------------------------------------ bounds
MaxChain == 2         \* longest transformer list handed to the pipeline
MaxNoMedia == 1       \* completions without a media URL the remote gives per run
MaxPolls == 1         \* polls counted per job (the count saturates here)

\* --------------------------------------------------------- program constants
NumSigns == 12
RenderSeconds == 8
DefaultFps == 24

ZODIAC_SIGNS ==
    << "Aries", "Taurus", "Gemini", "Cancer", "Leo", "Virgo",
       "Libra", "Scorpio", "Sagittarius", "Capricorn", "Aquarius", "Pisces" >>

\* str.lower() on a sign name
Lower(sign) ==
    CASE sign = "Aries" -> "aries"
      [] sign = "Taurus" -> "taurus"
      [] sign = "Gemini" -> "gemini"
      [] sign = "Cancer" -> "cancer"
      [] sign = "Leo" -> "leo"
      [] sign = "Virgo" -> "virgo"
      [] sign = "Libra" -> "libra"
      [] sign = "Scorpio" -> "scorpio"
      [] sign = "Sagittarius" -> "sagittarius"
      [] sign = "Capricorn" -> "capricorn"
      [] sign = "Aquarius" -> "aquarius"
      [] sign = "Pisces" -> "pisces"

\* ------------------------------------------------------------------- inputs
\* command lines: --date, --aspect, --style (fps keeps its default)
CliArgs ==
    { [ date |-> [y |-> 2025, m |-> 6, d |-> 1], aspect |-> "16:9",
        style |-> "whimsical_astrology" ],
      [ date |-> [y |-> 2026, m |-> 11, d |-> 4], aspect |-> "9:16",
        style |-> "noir" ] }

LlmText == "llm-text"    \* a stripped chat completion

\* signs (by position) whose chat completion call raises: none, the first, all
TextFailures == { { }, { 1 }, 1..NumSigns }

\* seconds the clock can show during a run
ClockValues == { 0, 1 }

\* requests.exceptions.RequestException: HTTPError, ConnectionError, Timeout
TransportError == "RequestException"

MonthName(m) == IF m = 6 THEN "June" ELSE "November"

\* date.strftime("%B %d, %Y")
StrfBdY(date) == << MonthName(date.m), date.d, ",", date.y >>

\* date.isoformat()
IsoFormat(date) == << date.y, "-", date.m, "-", date.d >>

NoPath == << >>          \* None in Optional[str]

\* ------------------------------------------------------------ data models
RenderSpec(aspect, fps) ==
    [ aspect_ratio |-> aspect, seconds |-> RenderSeconds, fps |-> fps ]

SceneSpec(sign, text, prompt, render, style) ==
    [ sign |-> sign, script_text |-> text, prompt |-> prompt,
      render |-> render, style_tag |-> style ]

\* `scene` is a reference: the index of the SceneSpec in run's list `scenes`
VideoJob(id, scene) ==
    [ id |-> id, scene |-> scene, status |-> "queued", video_path |-> NoPath ]

\* ------------------------------------------------- template + transformers
\* DEFAULT_TEMPLATE.format(aspect=, sign=, caption=, seconds=)
DEFAULT_TEMPLATE(aspect, sign, caption, seconds) ==
    << "Cinematic", aspect, "shot. ... glyphs for", sign,
       "... On-screen caption (subtitle style): '" >>
    \o caption
    \o << "'. Keep timing readable for", seconds, "s." >>

Addon == " Add neon signage in the distance, subtle rain streaks, and UI scanlines."

IdentityTransformer(prompt, scene) == prompt

CyberpunkPunchup(prompt, scene) == Append(prompt, Addon)

\* a further implementation of the PromptTransformer protocol, one that reads
\* the scene and does not commute with the punch-up
SignTagTransformer(prompt, scene) == Append(prompt, scene.sign)

TransformerNames == { "Identity", "Punchup", "SignTag" }

\* t(prompt, scene) for the transformer named t
Call(t, prompt, scene) ==
    CASE t = "Identity" -> IdentityTransformer(prompt, scene)
      [] t = "Punchup" -> CyberpunkPunchup(prompt, scene)
      [] t = "SignTag" -> SignTagTransformer(prompt, scene)

build_transformers(cyberpunk) ==
    IF cyberpunk THEN << "Identity", "Punchup" >> ELSE << "Identity" >>

\* HoroscopeVeoPipeline.__init__: transformers or [IdentityTransformer()]
PipelineTransformers(given) ==
    IF given = << >> THEN << "Identity" >> ELSE given

\* the transformer lists main builds from --cyberpunk
CliChains == { build_transformers(c) : c \in BOOLEAN }

\* transformer lists a pipeline is constructed with: those of main, and every
\* list of up to n rewriting transformers
ChainsUpTo(n) ==
    CliChains \cup UNION { [1..k -> TransformerNames \ { "Identity" }] : k \in 0..n }

\* ScenePlanner.build_scene
build_scene(render, style, sign, text) ==
    SceneSpec(sign, text,
              DEFAULT_TEMPLATE(render.aspect_ratio, sign, text, render.seconds),
              render, style)

\* a chain that feeds every transformer the prompt the scene was built with,
\* so that only the last transformer's output is kept
ApplyChain_EachOnBase(ts, scene) ==
    IF ts = << >> THEN scene
    ELSE [scene EXCEPT !.prompt = Call(ts[Len(ts)], scene.prompt, scene)]

\* the inner loop of run: for t in self.transformers: scene.prompt = t(scene.prompt, scene)
RECURSIVE ApplyChain(_, _)
ApplyChain(ts, scene) ==
    IF ts = << >> THEN scene
    ELSE ApplyChain(Tail(ts),
                    [scene EXCEPT !.prompt = Call(Head(ts), scene.prompt, scene)])

\* ---------------------------------------------------------- text generators
\* the fallback generate_daily_horoscopes defined when no key / import fails
MockText(sign, date) ==
    << sign, ":" >> \o StrfBdY(date) \o << "is your lucky day - test horoscope only." >>

PlaceholderText(sign) == << "(", sign, "placeholder horoscope: Today is a lucky day!)" >>

\* horoscope_writer.generate_daily_horoscopes: the signs in `failing` hit the
\* except branch, the others get the stripped completion text
RealScripts(failing, llm) ==
    [ k \in 1..NumSigns |->
        << ZODIAC_SIGNS[k],
           IF k \in failing THEN PlaceholderText(ZODIAC_SIGNS[k]) ELSE << llm >> >> ]

MockScripts(date) ==
    [ k \in 1..NumSigns |-> << ZODIAC_SIGNS[k], MockText(ZODIAC_SIGNS[k], date) >> ]

\* module import: the real generator only when OPENAI_API_KEY is set, else
\* (ImportError, caught) the mock
SelectGenerator(key) == IF key THEN "real" ELSE "mock"

\* generate_daily_horoscopes(date) as bound at import
generate_daily_horoscopes(key, date, failing) ==
    IF SelectGenerator(key) = "real" THEN RealScripts(failing, LlmText)
    ELSE MockScripts(date)

\* ------------------------------------------------------------------- state
VARIABLES
    variant,      \* which VeoClient definition the pipeline holds: "http" | "stub"
    veoKey,       \* VEO_API_KEY is set
    openaiKey,    \* OPENAI_API_KEY is set
    args,         \* the parsed command line
    given,        \* transformers handed to HoroscopeVeoPipeline
    pc,           \* position of main / run
    raised,       \* exception that left main, "none" if none
    dirs,         \* directories that exist
    promptFiles,  \* prompts/<sign>.txt: sign -> content
    renderFiles,  \* ids with a file renders/<id>.mp4 (whole or partial)
    scripts,      \* the sign -> text mapping, in insertion order
    scenes,       \* run's list of SceneSpec
    i,            \* index of the scene the current loop is at
    inflight,     \* jobs submitted and not yet returned by poll_until_done
    jobs,         \* run's list `jobs`
    manifestFile, \* contents written to manifest.json, one per write
    returned,     \* what run returned
    now,          \* the clock, in seconds
    opSeq,        \* next operation number the remote issues
    polls         \* polls of the current job answered "not done"

vars ==
    << variant, veoKey, openaiKey, args, given, pc, raised, dirs, promptFiles,
       renderFiles, scripts, scenes, i, inflight, jobs, manifestFile, returned,
       now, opSeq, polls >>

env == << variant, veoKey, openaiKey, args, given >>

OutDir == << "out" >>
PromptsDir == << "out", "prompts" >>
RendersDir == << "out", "renders" >>

\* str(renders / f"{job.id}.mp4")
RenderPath(id) == << "out", "renders", id, ".mp4" >>

\* f"prompts/{sign}.txt"
PromptFileName(sign) == << "prompts", sign, ".txt" >>

Init ==
    /\ variant \in { "http", "stub" }
    /\ veoKey \in BOOLEAN
    /\ openaiKey \in BOOLEAN
    /\ args \in CliArgs
    \* the transformer loop does not touch the client: every list is run with
    \* the client main constructs (the stub), main's lists with the HTTP client
    /\ given \in (IF variant = "stub" THEN ChainsUpTo(MaxChain) ELSE CliChains)
    /\ pc = "main"
    /\ raised = "none"
    /\ dirs = { }
    /\ promptFiles = << >>
    /\ renderFiles = { }
    /\ scripts = << >>
    /\ scenes = << >>
    /\ i = 1
    /\ inflight = << >>
    /\ jobs = << >>
    /\ manifestFile = << >>
    /\ returned = << >>
    /\ now = 0
    /\ opSeq = 1
    /\ polls = 0

\* an HTTP client that falls back to a default key as the stub does
HttpInitRaises_Defaulted(key) == FALSE

\* VeoClient.__init__ of the HTTP client: the key is required
HttpInitRaises(key) == ~key

\* VeoClient.__init__ of the stub: os.getenv("VEO_API_KEY", "demo-key") never fails
StubInitRaises(key) == FALSE

\* main up to the call of run: VeoClient() and the pipeline are constructed
Construct ==
    /\ pc = "main"
    /\ IF (variant = "http" /\ HttpInitRaises(veoKey))
          \/ (variant = "stub" /\ StubInitRaises(veoKey))
       THEN pc' = "aborted" /\ raised' = "RuntimeError"
       ELSE pc' = "mkdirs" /\ raised' = raised
    /\ UNCHANGED << env, dirs, promptFiles, renderFiles, scripts, scenes, i,
                    inflight, jobs, manifestFile, returned, now, opSeq, polls >>

\* run, lines 207-209: the three mkdir calls
MakeDirs ==
    /\ pc = "mkdirs"
    /\ dirs' = dirs \cup { OutDir, PromptsDir, RendersDir }
    /\ pc' = "generate"
    /\ UNCHANGED << env, raised, promptFiles, renderFiles, scripts, scenes, i,
                    inflight, jobs, manifestFile, returned, now, opSeq, polls >>

\* run, line 211: scripts = generate_daily_horoscopes(date)
Generate ==
    /\ pc = "generate"
    /\ \E failing \in TextFailures :
           scripts' = generate_daily_horoscopes(openaiKey, args.date, failing)
    /\ pc' = "build"
    /\ UNCHANGED << env, raised, dirs, promptFiles, renderFiles, scenes, i,
                    inflight, jobs, manifestFile, returned, now, opSeq, polls >>

\* run, lines 212-213: one scene per item of scripts, in its order
BuildScenes ==
    /\ pc = "build"
    /\ scenes' = [ k \in 1..Len(scripts) |->
                     build_scene(RenderSpec(args.aspect, DefaultFps), args.style,
                                 scripts[k][1], scripts[k][2]) ]
    /\ i' = 1
    /\ pc' = "transform"
    /\ UNCHANGED << env, raised, dirs, promptFiles, renderFiles, scripts,
                    inflight, jobs, manifestFile, returned, now, opSeq, polls >>

\* a persist loop that stops one scene early
TransformAndPersist_StopsEarly ==
    /\ pc = "transform"
    /\ i <= Len(scenes)
    /\ LET scene == ApplyChain(PipelineTransformers(given), scenes[i])
       IN /\ scenes' = [scenes EXCEPT ![i] = scene]
          /\ promptFiles' = (scene.sign :> scene.prompt) @@ promptFiles
    /\ IF i >= Len(scenes) - 1 THEN i' = 1 /\ pc' = "submit"
                               ELSE i' = i + 1 /\ pc' = pc
    /\ UNCHANGED << env, raised, dirs, renderFiles, scripts, inflight, jobs,
                    manifestFile, returned, now, opSeq, polls >>

\* run, lines 215-218, one pass of the outer loop: the chain rewrites the
\* scene's prompt in place and the result is written to prompts/<sign>.txt
TransformAndPersist ==
    /\ pc = "transform"
    /\ i <= Len(scenes)
    /\ LET scene == ApplyChain(PipelineTransformers(given), scenes[i])
       IN /\ scenes' = [scenes EXCEPT ![i] = scene]
          /\ promptFiles' = (scene.sign :> scene.prompt) @@ promptFiles
    /\ IF i = Len(scenes) THEN i' = 1 /\ pc' = "submit"
                          ELSE i' = i + 1 /\ pc' = pc
    /\ UNCHANGED << env, raised, dirs, renderFiles, scripts, inflight, jobs,
                    manifestFile, returned, now, opSeq, polls >>

\* an exception leaves run: nothing after the raising statement is executed
Raise(exc) ==
    /\ pc' = "aborted"
    /\ raised' = exc

FailedCount == Cardinality({ k \in 1..Len(jobs) : jobs[k].status = "failed" })

\* poll_until_done returned job j: run appends it and moves to the next scene
Returned(j) ==
    /\ jobs' = Append(jobs, j)
    /\ inflight' = << >>
    /\ IF i = Len(scenes) THEN pc' = "manifest" ELSE pc' = "submit"
    /\ i' = i + 1

\* ---- the HTTP client (first definition of VeoClient)
\* submit: the POST succeeds and the remote names the operation
HttpSubmit ==
    /\ pc = "submit" /\ variant = "http"
    /\ inflight' = Append(inflight, VideoJob(<< "operations", opSeq >>, i))
    /\ opSeq' = opSeq + 1
    /\ polls' = 0
    /\ pc' = "poll"
    /\ UNCHANGED << env, raised, dirs, promptFiles, renderFiles, scripts, scenes,
                    i, jobs, manifestFile, returned, now >>

\* submit: requests.post or raise_for_status raises
HttpSubmitError ==
    /\ pc = "submit" /\ variant = "http"
    /\ Raise(TransportError)
    /\ UNCHANGED << env, dirs, promptFiles, renderFiles, scripts, scenes, i,
                    inflight, jobs, manifestFile, returned, now, opSeq, polls >>

\* a poll that returns the job as it is on the first "not done" answer
PollNotDone_ReturnsQueued ==
    /\ pc = "poll" /\ variant = "http"
    /\ Returned(inflight[1])
    /\ UNCHANGED << env, raised, dirs, promptFiles, renderFiles, scripts, scenes,
                    manifestFile, returned, now, opSeq, polls >>

\* a poll loop with a maximum number of attempts
PollNotDone_MaxAttempts ==
    /\ pc = "poll" /\ variant = "http"
    /\ polls < MaxPolls
    /\ polls' = polls + 1
    /\ UNCHANGED << env, pc, raised, dirs, promptFiles, renderFiles, scripts,
                    scenes, i, inflight, jobs, manifestFile, returned, now, opSeq >>

\* poll_until_done, one pass of the loop: "done" is false, sleep and go round
PollNotDone ==
    /\ pc = "poll" /\ variant = "http"
    /\ polls' = IF polls < MaxPolls THEN polls + 1 ELSE polls
    /\ UNCHANGED << env, pc, raised, dirs, promptFiles, renderFiles, scripts,
                    scenes, i, inflight, jobs, manifestFile, returned, now, opSeq >>

\* poll_until_done: requests.get or raise_for_status raises
PollTransportError ==
    /\ pc = "poll" /\ variant = "http"
    /\ Raise(TransportError)
    /\ UNCHANGED << env, dirs, promptFiles, renderFiles, scripts, scenes, i,
                    inflight, jobs, manifestFile, returned, now, opSeq, polls >>

\* a failed job that ends the loop over the scenes
PollNoMedia_EndsLoop ==
    /\ pc = "poll" /\ variant = "http"
    /\ FailedCount < MaxNoMedia
    /\ jobs' = Append(jobs, [inflight[1] EXCEPT !.status = "failed"])
    /\ inflight' = << >>
    /\ i' = i + 1
    /\ pc' = "manifest"
    /\ UNCHANGED << env, raised, dirs, promptFiles, renderFiles, scripts, scenes,
                    manifestFile, returned, now, opSeq, polls >>

\* poll_until_done: done, and the response carries no videoUri
PollNoMedia ==
    /\ pc = "poll" /\ variant = "http"
    /\ FailedCount < MaxNoMedia
    /\ Returned([inflight[1] EXCEPT !.status = "failed"])
    /\ UNCHANGED << env, raised, dirs, promptFiles, renderFiles, scripts, scenes,
                    manifestFile, returned, now, opSeq, polls >>

\* poll_until_done: done with a videoUri, and the download succeeds
PollDownloaded ==
    /\ pc = "poll" /\ variant = "http"
    /\ LET job == inflight[1]
       IN /\ dirs' = dirs \cup { RendersDir }
          /\ renderFiles' = renderFiles \cup { job.id }
          /\ Returned([job EXCEPT !.video_path = RenderPath(job.id),
                                  !.status = "done"])
    /\ UNCHANGED << env, raised, promptFiles, scripts, scenes, manifestFile,
                    returned, now, opSeq, polls >>

\* a poll that assigns job.video_path before the download is attempted
PollDownloadError_PathSetFirst ==
    /\ pc = "poll" /\ variant = "http"
    /\ dirs' = dirs \cup { RendersDir }
    /\ \E partial \in BOOLEAN :
          renderFiles' = IF partial THEN renderFiles \cup { inflight[1].id }
                                    ELSE renderFiles
    /\ inflight' = << [inflight[1] EXCEPT !.video_path = RenderPath(inflight[1].id)] >>
    /\ Raise(TransportError)
    /\ UNCHANGED << env, promptFiles, scripts, scenes, i, jobs,
                    manifestFile, returned, now, opSeq, polls >>

\* poll_until_done: done with a videoUri, and the download raises, either
\* before the file is opened or while its chunks are written
PollDownloadError ==
    /\ pc = "poll" /\ variant = "http"
    /\ dirs' = dirs \cup { RendersDir }
    /\ \E partial \in BOOLEAN :
          renderFiles' = IF partial THEN renderFiles \cup { inflight[1].id }
                                    ELSE renderFiles
    /\ Raise(TransportError)
    /\ UNCHANGED << env, promptFiles, scripts, scenes, i, inflight, jobs,
                    manifestFile, returned, now, opSeq, polls >>

\* ---- the stub client (second definition of VeoClient, bound at module end)
\* submit: the id is built from the sign and the clock read at the call
StubSubmit ==
    /\ pc = "submit" /\ variant = "stub"
    /\ \E t \in { c \in ClockValues : c >= now } :
          /\ now' = t
          /\ inflight' = Append(inflight,
                 VideoJob(<< "veo", Lower(scenes[i].sign), t >>, i))
    /\ polls' = 0
    /\ pc' = "poll"
    /\ UNCHANGED << env, raised, dirs, promptFiles, renderFiles, scripts, scenes,
                    i, jobs, manifestFile, returned, opSeq >>

\* poll_until_done of the stub: sets the path and "done", writes no file
StubPoll ==
    /\ pc = "poll" /\ variant = "stub"
    /\ LET job == inflight[1]
       IN /\ dirs' = dirs \cup { RendersDir }
          /\ Returned([job EXCEPT !.video_path = RenderPath(job.id),
                                  !.status = "done"])
    /\ UNCHANGED << env, raised, promptFiles, renderFiles, scripts, scenes,
                    manifestFile, returned, now, opSeq, polls >>

\* ---- run, lines 226-243
ManifestEntry(j, scs) ==
    [ id |-> j.id, sign |-> scs[j.scene].sign, status |-> j.status,
      style |-> scs[j.scene].style_tag, video_path |-> j.video_path,
      prompt_file |-> PromptFileName(scs[j.scene].sign) ]

\* a manifest that lists only the jobs that are done
Manifest_OnlyDone(date, render, js, scs) ==
    [ date |-> IsoFormat(date), aspect_ratio |-> render.aspect_ratio,
      seconds |-> render.seconds,
      jobs |-> SelectSeq([ k \in 1..Len(js) |-> ManifestEntry(js[k], scs) ],
                         LAMBDA e : e.status = "done") ]

Manifest(date, render, js, scs) ==
    [ date |-> IsoFormat(date), aspect_ratio |-> render.aspect_ratio,
      seconds |-> render.seconds,
      jobs |-> [ k \in 1..Len(js) |-> ManifestEntry(js[k], scs) ] ]

\* a manifest step that puts failed jobs back to "queued" for a later retry
WriteManifest_RequeuesFailed ==
    /\ pc = "manifest"
    /\ manifestFile' = Append(manifestFile,
           Manifest(args.date, RenderSpec(args.aspect, DefaultFps), jobs, scenes))
    /\ jobs' = [ k \in 1..Len(jobs) |->
                   IF jobs[k].status = "failed"
                   THEN [jobs[k] EXCEPT !.status = "queued"] ELSE jobs[k] ]
    /\ returned' = jobs'
    /\ pc' = "done"
    /\ UNCHANGED << env, raised, dirs, promptFiles, renderFiles, scripts, scenes,
                    i, inflight, now, opSeq, polls >>

WriteManifest ==
    /\ pc = "manifest"
    /\ manifestFile' = Append(manifestFile,
           Manifest(args.date, RenderSpec(args.aspect, DefaultFps), jobs, scenes))
    /\ returned' = jobs
    /\ pc' = "done"
    /\ UNCHANGED << env, raised, dirs, promptFiles, renderFiles, scripts, scenes,
                    i, inflight, jobs, now, opSeq, polls >>

Next ==
    \/ Construct
    \/ MakeDirs
    \/ Generate
    \/ BuildScenes
    \/ TransformAndPersist
    \/ HttpSubmit
    \/ HttpSubmitError
    \/ PollNotDone
    \/ PollTransportError
    \/ PollNoMedia
    \/ PollDownloaded
    \/ PollDownloadError
    \/ StubSubmit
    \/ StubPoll
    \/ WriteManifest

Spec == Init /\ [][Next]_vars

\* ------------------------------------------- fairness and the HTTP client
\* the remote answers a poll with a completion
RemoteCompletes == PollNoMedia \/ PollDownloaded

\* runs of main with the HTTP client
HttpInit == Init /\ variant = "http"

\* the steps the process takes by itself once it is started
RunStep ==
    \/ Construct
    \/ MakeDirs
    \/ Generate
    \/ BuildScenes
    \/ TransformAndPersist
    \/ HttpSubmit
    \/ WriteManifest

\* exceptions of the requests calls
RemoteFails == HttpSubmitError \/ PollTransportError \/ PollDownloadError

HttpNext == RunStep \/ PollNotDone \/ RemoteCompletes \/ RemoteFails

\* the process keeps running, and the remote eventually reports completion
FairSpec ==
    HttpInit /\ [][HttpNext]_vars /\ WF_vars(RunStep) /\ WF_vars(RemoteCompletes)

\* the process keeps running; nothing is assumed of the remote
RunFairSpec == HttpInit /\ [][HttpNext]_vars /\ WF_vars(RunStep)

\* ----------------------------------------------------------------- helpers
Last(s) == s[Len(s)]

Terminal(j) == j.status \in { "done", "failed" }

ScriptSigns == { scripts[k][1] : k \in 1..Len(scripts) }

NothingWritten ==
    /\ dirs = { }
    /\ promptFiles = << >>
    /\ renderFiles = { }
    /\ manifestFile = << >>

\* ---------------------------------------------------------------------- C1
\* C1: a completed run has written exactly twelve prompt files and one
\* manifest with exactly twelve jobs; every sign of the generator's mapping
\* is the sign of exactly one manifest job, and the returned list holds the
\* same twelve jobs in the same order.
C1_TwelveJobsOnePerSign ==
    pc = "done" =>
        /\ Len(scripts) = NumSigns
        /\ DOMAIN promptFiles = ScriptSigns
        /\ Cardinality(DOMAIN promptFiles) = NumSigns
        /\ Len(manifestFile) = 1
        /\ Len(returned) = NumSigns
        /\ LET m == manifestFile[1]
           IN /\ Len(m.jobs) = NumSigns
              /\ \A k \in 1..Len(scripts) :
                    Cardinality({ n \in 1..Len(m.jobs) :
                                    m.jobs[n].sign = scripts[k][1] }) = 1
              /\ \A n \in 1..Len(m.jobs) :
                    /\ m.jobs[n].id = returned[n].id
                    /\ m.jobs[n].status = returned[n].status
                    /\ m.jobs[n].video_path = returned[n].video_path
                    /\ m.jobs[n].sign = scenes[returned[n].scene].sign

C1_Witness ==
    /\ pc = "done"
    /\ variant = "http"
    /\ \E k \in 1..Len(jobs) : jobs[k].status = "failed"
    /\ scripts[1][2] = PlaceholderText("Aries")

\* ---------------------------------------------------------------------- C2
\* C2: a transport error in submit or poll_until_done is caught for that job:
\* no RequestException leaves run, so the run is never aborted by one.
C2_TransportErrorCaughtPerJob ==
    ~(pc = "aborted" /\ raised = TransportError)

\* ---------------------------------------------------------------------- C3
C3_NoMediaStep ==
    (Len(jobs') = Len(jobs) + 1 /\ Last(jobs').status = "failed") =>
        /\ pc = "poll"
        /\ inflight = << [Last(jobs') EXCEPT !.status = "queued"] >>
        /\ Last(jobs').video_path = NoPath
        /\ raised' = "none"
        /\ inflight' = << >>
        /\ i' = i + 1
        /\ pc' = IF Len(jobs') = NumSigns THEN "manifest" ELSE "submit"

C3_ManifestStep ==
    (manifestFile' # manifestFile) =>
        /\ Len(manifestFile') = 1
        /\ Len(manifestFile'[1].jobs) = NumSigns
        /\ Len(jobs) = NumSigns
        /\ \A k \in 1..Len(jobs) :
              jobs[k].status = "failed" =>
                 /\ manifestFile'[1].jobs[k].status = "failed"
                 /\ manifestFile'[1].jobs[k].video_path = NoPath
                 /\ manifestFile'[1].jobs[k].id = jobs[k].id
                 /\ manifestFile'[1].jobs[k].sign = scripts[k][1]

C3_FailedJobListed ==
    /\ manifestFile # << >>
    /\ \E k \in 1..Len(manifestFile[1].jobs) :
          /\ manifestFile[1].jobs[k].status = "failed"
          /\ manifestFile[1].jobs[k].video_path = NoPath

\* C3: a completion without a media URL makes poll_until_done return the job
\* with status "failed" and video_path None, raises nothing, and run goes on
\* with the next scene (or the manifest after the last one); the manifest,
\* when written, lists all twelve jobs, the failed one with status "failed"
\* and a null video_path; and once a job has failed, the run does reach the
\* manifest listing it, unless a requests call for a later sign raises.
C3_NoMediaIsFailedJobNotError ==
    /\ [][C3_NoMediaStep /\ C3_ManifestStep]_vars
    /\ (\E k \in 1..Len(jobs) : jobs[k].status = "failed")
          ~> (C3_FailedJobListed \/ raised # "none")

C3_Witness ==
    /\ pc = "done"
    /\ jobs[3].status = "failed"
    /\ jobs[2].status = "done"
    /\ jobs[NumSigns].status = "done"
    /\ manifestFile[1].jobs[3].video_path = NoPath

\* ---------------------------------------------------------------------- C4
C4_Created ==
    (Len(inflight') > Len(inflight)) =>
        /\ pc = "submit" /\ pc' = "poll"
        /\ Last(inflight').status = "queued"
        /\ Last(inflight').video_path = NoPath

C4_Polled ==
    (inflight # << >> /\ inflight' # inflight) =>
        /\ pc = "poll"
        /\ inflight[1].status = "queued"
        /\ inflight' = << >>
        /\ jobs' = Append(jobs, Last(jobs'))
        /\ Last(jobs').id = inflight[1].id
        /\ Last(jobs').scene = inflight[1].scene
        /\ Last(jobs').status \in { "done", "failed" }
        /\ (Last(jobs').status = "done" /\ variant = "http")
              => inflight[1].id \in renderFiles'

C4_TerminalFrozen ==
    /\ Len(jobs') >= Len(jobs)
    /\ \A k \in 1..Len(jobs) : Terminal(jobs[k]) /\ jobs'[k] = jobs[k]
    /\ (jobs' # jobs) => (pc = "poll" /\ Len(jobs') = Len(jobs) + 1)

\* C4: submit creates a job as "queued" with no video_path; its status changes
\* only while run is in poll_until_done, and only queued -> queued,
\* queued -> done (the media is on disk, for the HTTP client) or
\* queued -> failed; a job that is done or failed is never changed again.
C4_JobStateMachine == [][C4_Created /\ C4_Polled /\ C4_TerminalFrozen]_vars

C4_Witness ==
    /\ pc = "poll"
    /\ polls = 1
    /\ Len(jobs) = 2
    /\ jobs[1].status = "failed"
    /\ jobs[2].status = "done"

\* ---------------------------------------------------------------------- C5
\* C5: at most one job is in flight: over all jobs that exist at most one is
\* "queued", a scene is submitted only when no job is in flight and every
\* earlier job is done or failed, and jobs are submitted in scene order.
C5_OneJobInFlight ==
    /\ Len(inflight) <= 1
    /\ Cardinality({ k \in 1..Len(inflight) : inflight[k].status = "queued" })
         + Cardinality({ k \in 1..Len(jobs) : jobs[k].status = "queued" }) <= 1
    /\ \A k \in 1..Len(jobs) : Terminal(jobs[k]) /\ jobs[k].scene = k
    /\ \A k \in 1..Len(inflight) : inflight[k].scene = Len(jobs) + k
    /\ pc = "submit" => (inflight = << >> /\ i = Len(jobs) + 1)

C5_Witness ==
    /\ pc = "poll"
    /\ Len(jobs) = 5
    /\ inflight # << >>
    /\ inflight[1].scene = 6

\* ---------------------------------------------------------------------- C6
\* C6: run's phases come in the order directories, text, scenes and prompt
\* files, jobs, manifest: a job exists only when all twelve prompt files are
\* written, the manifest is written at most once and only when all twelve
\* jobs are done or failed, and it never lists a "queued" job.
C6_PhaseOrder ==
    /\ scripts # << >> => { OutDir, PromptsDir, RendersDir } \subseteq dirs
    /\ scenes # << >> => Len(scripts) = NumSigns
    /\ promptFiles # << >> => Len(scenes) = NumSigns
    /\ (inflight # << >> \/ jobs # << >>) =>
          /\ DOMAIN promptFiles = ScriptSigns
          /\ \A k \in 1..Len(scenes) : promptFiles[scenes[k].sign] = scenes[k].prompt
    /\ Len(manifestFile) <= 1
    /\ manifestFile # << >> =>
          /\ pc = "done"
          /\ inflight = << >>
          /\ Len(jobs) = NumSigns
          /\ \A k \in 1..Len(jobs) : Terminal(jobs[k])
          /\ \A k \in 1..Len(manifestFile[1].jobs) :
                manifestFile[1].jobs[k].status # "queued"

C6_Witness ==
    /\ manifestFile # << >>
    /\ Len(manifestFile[1].jobs) = NumSigns
    /\ variant = "stub"

\* ---------------------------------------------------------------------- C7
\* C7 as stated: whenever an API key is missing, the process has aborted with
\* a configuration error once main has constructed its client, and nothing
\* has been written.
C7_MissingKeyAborts ==
    ((~veoKey \/ ~openaiKey) /\ pc # "main") =>
        (pc = "aborted" /\ raised = "RuntimeError" /\ NothingWritten)

\* C7 as amended: only the HTTP client requires VEO_API_KEY: without it the
\* constructor raises RuntimeError before any directory or file is written.
\* The stub client falls back to "demo-key" and a missing OPENAI_API_KEY
\* selects the mock generator; neither raises a configuration error, and the
\* run then works on the mock texts.
C7_OnlyHttpClientRequiresKey ==
    /\ (variant = "http" /\ ~veoKey /\ pc # "main") =>
          (pc = "aborted" /\ raised = "RuntimeError" /\ NothingWritten)
    /\ raised = "RuntimeError" => (variant = "http" /\ ~veoKey)
    /\ variant = "stub" => pc # "aborted"
    /\ (~openaiKey /\ scripts # << >>) =>
          \A k \in 1..NumSigns :
             scripts[k] = << ZODIAC_SIGNS[k], MockText(ZODIAC_SIGNS[k], args.date) >>

C7_Witness ==
    /\ variant = "http"
    /\ ~veoKey
    /\ pc = "aborted"
    /\ raised = "RuntimeError"

\* ---------------------------------------------------------------------- C8
\* the prompt after the first n transformers of ts, each fed the previous
\* one's output
RECURSIVE ChainStage(_, _, _, _)
ChainStage(ts, n, base, scene) ==
    IF n = 0 THEN base
    ELSE Call(ts[n], ChainStage(ts, n - 1, base, scene), scene)

BasePrompt(k) ==
    DEFAULT_TEMPLATE(args.aspect, scripts[k][1], scripts[k][2], RenderSeconds)

\* C8: for every scene whose prompt file is written, the file and the scene's
\* prompt field (the prompt submit sends) equal Tn(...T1(base, scene)...) for
\* the configured list T1..Tn; with the --cyberpunk list that is the base
\* prompt followed by the punch-up clause.
C8_ChainAppliedInOrder ==
    \A k \in 1..Len(scenes) :
        scenes[k].sign \in DOMAIN promptFiles =>
            LET base == BasePrompt(k)
                scene0 == SceneSpec(scripts[k][1], scripts[k][2], base,
                                    RenderSpec(args.aspect, DefaultFps), args.style)
                final == ChainStage(given, Len(given), base, scene0)
            IN /\ promptFiles[scenes[k].sign] = final
               /\ scenes[k].prompt = final
               /\ scenes[k] = [scene0 EXCEPT !.prompt = final]
               /\ given = build_transformers(TRUE) => final = base \o << Addon >>
               /\ given = build_transformers(FALSE) => final = base

C8_Witness ==
    /\ pc = "poll"
    /\ variant = "stub"
    /\ given = << "SignTag", "Punchup" >>
    /\ promptFiles["Leo"] = BasePrompt(5) \o << "Leo", Addon >>

\* --------------------------------------------------------------------- C10
AllJobs ==
    { inflight[k] : k \in 1..Len(inflight) }
        \cup { jobs[k] : k \in 1..Len(jobs) }
        \cup { returned[k] : k \in 1..Len(returned) }

ManifestEntries ==
    UNION { { manifestFile[n].jobs[k] : k \in 1..Len(manifestFile[n].jobs) } :
            n \in 1..Len(manifestFile) }

PathMatchesStatus(j) ==
    /\ (j.status = "done") <=> (j.video_path # NoPath)
    /\ j.video_path # NoPath => j.video_path = << "out", "renders", j.id, ".mp4" >>

\* C10: for both clients, every job outside poll_until_done (in flight, in
\* run's list, returned, listed in the manifest, or left behind by a raising
\* download) is "done" exactly when its video_path is set, and the path is
\* then <out>/renders/<id>.mp4.
C10_DoneIffVideoPath ==
    /\ \A j \in AllJobs : PathMatchesStatus(j)
    /\ \A e \in ManifestEntries : PathMatchesStatus(e)

C10_Witness ==
    /\ pc = "aborted"
    /\ inflight # << >>
    /\ inflight[1].id \in renderFiles
    /\ inflight[1].video_path = NoPath
    /\ \E k \in 1..Len(jobs) : jobs[k].status = "done"

\* ---------------------------------------------------------------------- C9
C9_NotDoneStep ==
    (polls' = polls + 1) =>
        /\ pc = "poll" /\ pc' = "poll"
        /\ inflight' = inflight
        /\ inflight[1].status = "queued"
        /\ jobs' = jobs
        /\ manifestFile' = manifestFile

C9_Terminated == raised # "none" \/ (pc = "done" /\ Len(manifestFile) = 1)

\* C9: poll_until_done has no poll limit: while the HTTP client polls, one
\* more "not done" answer is always possible, and it leaves the job queued
\* and run inside the poll. If the remote eventually reports completion,
\* every submitted job leaves the poll done or failed unless an exception is
\* raised, and every run ends with the manifest written or with an exception.
C9_NoPollLimitButFairTermination ==
    /\ []((pc = "poll" /\ variant = "http") => ENABLED PollNotDone)
    /\ [][C9_NotDoneStep]_vars
    /\ (inflight # << >>) ~> (inflight = << >> \/ raised # "none")
    /\ <>C9_Terminated

\* the run always ends (with the manifest or an exception), whatever the remote does
C9_AlwaysTerminates == <>C9_Terminated

C9_Witness ==
    /\ variant = "http"
    /\ pc = "poll"
    /\ polls = MaxPolls
    /\ inflight[1].status = "queued"
    /\ Len(jobs) = NumSigns - 1

====
